---- MODULE Spec2Model ----
(***************************************************************************)
(* hono-takibi: the parameter classifier generateParamsObject, the         *)
(* object-schema expression builder generateZodObjectSchema and the HTTP   *)
(* method type guard isHttpMethod.                                         *)
(*                                                                         *)
(* Text.  A string is a sequence of text atoms; `${a}${b}` and '+' are \o  *)
(* and '' is << >>.  For the generated Zod expressions an atom is a lexeme *)
(* ("z.string()", ".optional()", ":", ","), for isHttpMethod an atom is a  *)
(* single character, because that comparison is character-exact.           *)
(*                                                                         *)
(* Objects.  A JavaScript object is the sequence of its own enumerable     *)
(* properties [key, val] in OrdinaryOwnPropertyKeys order: integer-like    *)
(* keys in ascending numeric order first, then the other string keys in    *)
(* the order they were created.  Property names range over ordinary keys   *)
(* (identifiers and integer-like names), not over members of               *)
(* Object.prototype.                                                       *)
(***************************************************************************)
EXTENDS Integers, Sequences, FiniteSets, TLC

VARIABLES
    parameters,   \* generateParamsObject: the argument, a list of descriptors
    i,            \* number of descriptors the reduce has folded so far
    acc,          \* the accumulator object of the reduce
    pc,           \* "running" | "done" (returned); "error" would be a throw
    calls,        \* number of calls of generateParamsObject begun so far
    firstParams,  \* argument of the first completed call
    firstResult,  \* value the first completed call returned
    method,       \* isHttpMethod: the argument
    isMethod,     \* isHttpMethod: the returned boolean
    mpc,          \* "call" | "returned" | "threw"
    inserted,     \* generateZodObjectSchema: the [key, val] assignments that built the argument
    object,       \* generateZodObjectSchema: the argument
    built,        \* number of assignments of inserted carried out
    schema,       \* generateZodObjectSchema: the returned text
    opc           \* "build" | "returned"

vars == <<parameters, i, acc, pc, calls, firstParams, firstResult,
          method, isMethod, mpc, inserted, object, built, schema, opc>>

paramsVars == <<parameters, i, acc, pc, calls, firstParams, firstResult>>
methodVars == <<method, isMethod, mpc>>
objectVars == <<inserted, object, built, schema, opc>>

-----------------------------------------------------------------------------
(* Bounds *)

MaxLen == 2        \* longest parameter list
MaxOrderLen == 3   \* longest parameter list in the key-order specification
MaxRerunLen == 1   \* longest parameter list in the repeated-call specification
MaxCalls == 3      \* calls of generateParamsObject in the repeated-call specification
MaxProps == 3      \* assignments that build the argument of generateZodObjectSchema
MaxPad == 1        \* blanks put before / after a method token

-----------------------------------------------------------------------------
(* JavaScript objects *)

\* Integer-like ("array index") property names and their numeric value.
IndexOf == ("0" :> 0) @@ ("1" :> 1)

IsIndex(k) == k \in DOMAIN IndexOf

\* o.hasOwnProperty(k)
Has(o, k) == \E n \in 1..Len(o) : o[n].key = k

\* o[k], for an own property k
Get(o, k) == LET n == CHOOSE n \in 1..Len(o) : o[n].key = k IN o[n].val

\* Object.keys(o)
Keys(o) == [n \in 1..Len(o) |-> o[n].key]

KeySet(o) == {o[n].key : n \in 1..Len(o)}

\* A new key k1 is enumerated before the existing key k2: k1 is integer-like
\* and k2 is not, or is a larger integer.
ComesBefore(k1, k2) ==
    /\ IsIndex(k1)
    /\ (IsIndex(k2) => IndexOf[k1] < IndexOf[k2])

\* Variant of Put that enumerates keys in plain insertion order.
PutAppend(o, k, v) ==
    IF Has(o, k)
    THEN [n \in 1..Len(o) |-> IF o[n].key = k THEN [key |-> k, val |-> v] ELSE o[n]]
    ELSE Append(o, [key |-> k, val |-> v])

\* Variant of Put in which an overwritten key is removed and created anew.
PutMoveLast(o, k, v) ==
    LET rest == SelectSeq(o, LAMBDA e : e.key # k)
        before == {n \in 1..Len(rest) : ~ComesBefore(k, rest[n].key)}
        at == Cardinality(before)
    IN  SubSeq(rest, 1, at) \o <<[key |-> k, val |-> v]>> \o SubSeq(rest, at + 1, Len(rest))

\* o[k] = v : an existing property keeps its place, a new integer-like key is
\* placed among the integer-like keys, any other new key goes last.
Put(o, k, v) ==
    IF Has(o, k)
    THEN [n \in 1..Len(o) |-> IF o[n].key = k THEN [key |-> k, val |-> v] ELSE o[n]]
    ELSE LET before == {n \in 1..Len(o) : ~ComesBefore(k, o[n].key)}
             at == Cardinality(before)
         IN  SubSeq(o, 1, at) \o <<[key |-> k, val |-> v]>> \o SubSeq(o, at + 1, Len(o))

-----------------------------------------------------------------------------
(* Collaborators of generateParamsObject (imported, lines 2-3) *)

\* generateZodSchema(schema): the base validation expression of a schema node.
generateZodSchema(s) ==
    CASE s.type = "string"  -> <<"z.string()">>
      [] s.type = "number"  -> <<"z.number()">>
      [] s.type = "integer" -> <<"z.number()", ".int()">>
      [] s.type = "boolean" -> <<"z.boolean()">>

\* generateZodCoerce(z, schema): parse the source representation z, then
\* validate against schema.
generateZodCoerce(z, s) == z \o <<".pipe(">> \o s \o <<")">>

-----------------------------------------------------------------------------
(* generateParamsObject *)

Names == {"page", "0", "1"}
Locations == {"path", "query", "header", "body"}
OtherLocations == {"cookie"}
Types == {"string", "number", "integer"}

Descriptors ==
    [name : Names, in : Locations \cup OtherLocations, required : BOOLEAN,
     schema : [type : Types]]

Lists(S, n) == UNION {[1..m -> S] : m \in 0..n}

\* Variant of optionalSuffix that appends the modifier twice.
optionalSuffixTwice(param) ==
    IF param.required THEN << >> ELSE <<".optional()", ".optional()">>

\* line 68
optionalSuffix(param) == IF param.required THEN << >> ELSE <<".optional()">>

\* line 69
baseSchema(param) == generateZodSchema(param.schema)

\* lines 72-74
initSection(a, paramLocation) ==
    IF ~Has(a, paramLocation) THEN Put(a, paramLocation, << >>) ELSE a

\* Variant of zodSchema that coerces numeric schemas in every location.
zodSchemaAnyLocation(param) ==
    IF param.schema.type = "number" \/ param.schema.type = "integer"
    THEN generateZodCoerce(<<"z.string()">>, baseSchema(param))
    ELSE baseSchema(param)

\* lines 77-80
zodSchema(param) ==
    IF param.in = "query" /\ (param.schema.type = "number" \/ param.schema.type = "integer")
    THEN generateZodCoerce(<<"z.string()">>, baseSchema(param))
    ELSE baseSchema(param)

\* Variant of store that keeps the text of an earlier descriptor.
storeKeepFirst(a, paramLocation, name, text) ==
    IF Has(Get(a, paramLocation), name) THEN a
    ELSE Put(a, paramLocation, Put(Get(a, paramLocation), name, text))

\* line 83: acc[paramLocation][name] = text, the section changed in place
store(a, paramLocation, name, text) ==
    Put(a, paramLocation, Put(Get(a, paramLocation), name, text))

\* lines 66-84: the reduce callback, (acc, param) => acc
callback(a, param) ==
    LET paramLocation == param.in
    IN  store(initSection(a, paramLocation), paramLocation, param.name,
              zodSchema(param) \o optionalSuffix(param))

\* Variant of initialValue: one accumulator object shared by all calls.
sharedAccumulator(old) == old

\* line 85: the initial value of the reduce, a new object on every call;
\* old is the accumulator the previous call left behind.

initialValue(old) == << >>

InitOthersOfParams ==
    /\ method = << >> /\ isMethod = FALSE /\ mpc = "idle"
    /\ inserted = << >> /\ object = << >> /\ built = 0 /\ schema = << >> /\ opc = "idle"

Init ==
    /\ parameters \in Lists(Descriptors, MaxLen)
    /\ i = 0
    /\ acc = initialValue(<< >>)
    /\ pc = "running"
    /\ calls = 1
    /\ firstParams = << >>
    /\ firstResult = << >>
    /\ InitOthersOfParams

\* One iteration of parameters.reduce.
Reduce ==
    /\ pc = "running"
    /\ i < Len(parameters)
    /\ acc' = callback(acc, parameters[i + 1])
    /\ i' = i + 1
    /\ UNCHANGED <<parameters, pc, calls, firstParams, firstResult>>
    /\ UNCHANGED <<methodVars, objectVars>>

\* The reduce is over: generateParamsObject returns the accumulator.
Return ==
    /\ pc = "running"
    /\ i = Len(parameters)
    /\ pc' = "done"
    /\ UNCHANGED <<parameters, i, acc, calls, firstParams, firstResult>>
    /\ UNCHANGED <<methodVars, objectVars>>

Next == Reduce \/ Return

Spec == Init /\ [][Next]_vars

-----------------------------------------------------------------------------
(* generateParamsObject on lists with repeated and integer-like names *)

\* Longer lists over fewer descriptors: two identifier names and two
\* integer-like names in two locations, with two schema types.
OrderNames == {"id", "page", "0", "1"}

OrderDescriptors ==
    [name : OrderNames, in : {"path", "query"}, required : {TRUE},
     schema : [type : {"string", "integer"}]]

InitOrder ==
    /\ parameters \in Lists(OrderDescriptors, MaxOrderLen)
    /\ i = 0
    /\ acc = initialValue(<< >>)
    /\ pc = "running"
    /\ calls = 1
    /\ firstParams = << >>
    /\ firstResult = << >>
    /\ InitOthersOfParams

SpecOrder == InitOrder /\ [][Next]_vars

-----------------------------------------------------------------------------
(* generateParamsObject called repeatedly *)

\* The descriptors of the repeated calls: an integer parameter under two
\* names in two locations, required or not.
RerunDescriptors ==
    {d \in Descriptors :
        /\ d.name \in {"page", "1"}
        /\ d.in \in {"path", "query"}
        /\ d.schema.type = "integer"}

InitRerun ==
    /\ parameters \in Lists(RerunDescriptors, MaxRerunLen)
    /\ i = 0
    /\ acc = initialValue(<< >>)
    /\ pc = "running"
    /\ calls = 1
    /\ firstParams = << >>
    /\ firstResult = << >>
    /\ InitOthersOfParams

\* A further call, after the previous one returned.  The first call's
\* argument and result are remembered.
CallAgain ==
    /\ pc = "done"
    /\ calls < MaxCalls
    /\ \E ps \in Lists(RerunDescriptors, MaxRerunLen) : parameters' = ps
    /\ i' = 0
    /\ acc' = initialValue(acc)
    /\ pc' = "running"
    /\ calls' = calls + 1
    /\ firstParams' = IF calls = 1 THEN parameters ELSE firstParams
    /\ firstResult' = IF calls = 1 THEN acc ELSE firstResult
    /\ UNCHANGED <<methodVars, objectVars>>

NextRerun == Reduce \/ Return \/ CallAgain

SpecRerun == InitRerun /\ [][NextRerun]_vars

-----------------------------------------------------------------------------
(* isHttpMethod *)

get == <<"g", "e", "t">>
post == <<"p", "o", "s", "t">>
put == <<"p", "u", "t">>
delete == <<"d", "e", "l", "e", "t", "e">>
patch == <<"p", "a", "t", "c", "h">>
options == <<"o", "p", "t", "i", "o", "n", "s">>
head == <<"h", "e", "a", "d">>

\* Variant of isHttpMethod that misses the last alternative.
isHttpMethodNoHead(m) ==
    \/ m = get
    \/ m = post
    \/ m = put
    \/ m = delete
    \/ m = patch
    \/ m = options

\* lines 10-20
isHttpMethod(m) ==
    \/ m = get
    \/ m = post
    \/ m = put
    \/ m = delete
    \/ m = patch
    \/ m = options
    \/ m = head

\* The arguments tried: method tokens, near misses and other words, in
\* lower, upper and capitalised spelling, with blanks around them.
toUpperCase ==
    ("g" :> "G") @@ ("e" :> "E") @@ ("t" :> "T") @@ ("p" :> "P") @@ ("o" :> "O") @@
    ("s" :> "S") @@ ("u" :> "U") @@ ("d" :> "D") @@ ("l" :> "L") @@ ("a" :> "A") @@
    ("c" :> "C") @@ ("h" :> "H") @@ ("i" :> "I") @@ ("n" :> "N") @@ ("r" :> "R")

Upper(w) == [n \in 1..Len(w) |-> toUpperCase[w[n]]]

Capitalised(w) == [n \in 1..Len(w) |-> IF n = 1 THEN toUpperCase[w[n]] ELSE w[n]]

Blanks(n) == [k \in 1..n |-> " "]

Words ==
    {get, post, put, delete, patch, options, head,
     << >>, <<"g", "e">>, <<"g", "e", "t", "s">>,
     <<"t", "r", "a", "c", "e">>, <<"c", "o", "n", "n", "e", "c", "t">>}

MethodInputs ==
    {Blanks(l) \o s \o Blanks(r) :
        l \in 0..MaxPad, r \in 0..MaxPad,
        s \in UNION {{w, Upper(w), Capitalised(w)} : w \in Words}}

InitOthersOfMethod ==
    /\ parameters = << >> /\ i = 0 /\ acc = << >> /\ pc = "idle"
    /\ calls = 0 /\ firstParams = << >> /\ firstResult = << >>
    /\ inserted = << >> /\ object = << >> /\ built = 0 /\ schema = << >> /\ opc = "idle"

InitMethod ==
    /\ method \in MethodInputs
    /\ isMethod = FALSE
    /\ mpc = "call"
    /\ InitOthersOfMethod

IsHttpMethod ==
    /\ mpc = "call"
    /\ isMethod' = isHttpMethod(method)
    /\ mpc' = "returned"
    /\ UNCHANGED <<method, paramsVars, objectVars>>

NextMethod == IsHttpMethod

SpecMethod == InitMethod /\ [][NextMethod]_vars

-----------------------------------------------------------------------------
(* generateZodObjectSchema *)

PropKeys == {"name", "age", "0", "1"}
PropVals == {<<"z.string()">>, <<"z.number()", ".min(0)">>}
Props == [key : PropKeys, val : PropVals]

\* Array.prototype.join
RECURSIVE join(_, _)
join(parts, sep) ==
    IF Len(parts) = 0 THEN << >>
    ELSE IF Len(parts) = 1 THEN parts[1]
    ELSE parts[1] \o sep \o join(Tail(parts), sep)

\* Variant of join that puts the separator after every part.
RECURSIVE joinTrailing(_, _)
joinTrailing(parts, sep) ==
    IF Len(parts) = 0 THEN << >>
    ELSE parts[1] \o sep \o joinTrailing(Tail(parts), sep)

\* Object.entries(object).map(([key, val]) => `${key}:${val}`)
entryTexts(o) == [n \in 1..Len(o) |-> <<o[n].key, ":">> \o o[n].val]

\* Variant of generateZodObjectSchema with a separator after the last entry.
generateZodObjectSchemaTrailing(o) ==
    <<"z.object({">> \o joinTrailing(entryTexts(o), <<",">>) \o <<"})">>

\* lines 36-40
generateZodObjectSchema(o) ==
    <<"z.object({">> \o join(entryTexts(o), <<",">>) \o <<"})">>

InitOthersOfObject ==
    /\ parameters = << >> /\ i = 0 /\ acc = << >> /\ pc = "idle"
    /\ calls = 0 /\ firstParams = << >> /\ firstResult = << >>
    /\ method = << >> /\ isMethod = FALSE /\ mpc = "idle"

InitObject ==
    /\ inserted \in Lists(Props, MaxProps)
    /\ object = << >>
    /\ built = 0
    /\ schema = << >>
    /\ opc = "build"
    /\ InitOthersOfObject

\* The caller builds the argument: object[key] = val, in the order of inserted.
Assign ==
    /\ opc = "build"
    /\ built < Len(inserted)
    /\ object' = Put(object, inserted[built + 1].key, inserted[built + 1].val)
    /\ built' = built + 1
    /\ UNCHANGED <<inserted, schema, opc, paramsVars, methodVars>>

\* generateZodObjectSchema(object) is called and returns.
Generate ==
    /\ opc = "build"
    /\ built = Len(inserted)
    /\ schema' = generateZodObjectSchema(object)
    /\ opc' = "returned"
    /\ UNCHANGED <<inserted, object, built, paramsVars, methodVars>>

NextObject == Assign \/ Generate

SpecObject == InitObject /\ [][NextObject]_vars

-----------------------------------------------------------------------------
(* Vocabulary of the properties *)

Range(s) == {s[n] : n \in 1..Len(s)}

Front(s) == SubSeq(s, 1, Len(s) - 1)

Last(s) == s[Len(s)]

\* The elements of s, each once, in the order of their first occurrence.
RECURSIVE FirstOccurrences(_)
FirstOccurrences(s) ==
    IF s = << >> THEN << >>
    ELSE LET d == FirstOccurrences(Front(s))
         IN  IF Last(s) \in Range(d) THEN d ELSE Append(d, Last(s))

\* The integer-like keys of the set S in ascending numeric order.
RECURSIVE Ascending(_)
Ascending(S) ==
    IF S = {} THEN << >>
    ELSE LET least == CHOOSE k \in S : \A other \in S : IndexOf[k] <= IndexOf[other]
         IN  <<least>> \o Ascending(S \ {least})

\* The order in which JavaScript enumerates keys created in the order s.
OwnKeyOrder(s) ==
    Ascending({k \in Range(s) : IsIndex(k)})
        \o SelectSeq(FirstOccurrences(s), LAMBDA k : ~IsIndex(k))

\* The descriptors folded so far.
Folded == SubSeq(parameters, 1, i)

\* The names of the folded descriptors whose location is loc, in input order.
NamesIn(loc) ==
    LET ds == SelectSeq(Folded, LAMBDA d : d.in = loc)
    IN  [n \in 1..Len(ds) |-> ds[n].name]

\* The expression of section 4.5, steps 2-3, for descriptor d.
ExpectedExpression(d) ==
    IF d.in = "query" /\ d.schema.type \in {"number", "integer"}
    THEN generateZodCoerce(<<"z.string()">>, generateZodSchema(d.schema))
    ELSE generateZodSchema(d.schema)

\* The text of section 4.5, steps 2-4, for descriptor d.
ExpectedText(d) ==
    ExpectedExpression(d) \o (IF d.required THEN << >> ELSE <<".optional()">>)

\* The bucket the documentation names for a location.
BucketOf(loc) ==
    CASE loc = "path"   -> "params"
      [] loc = "query"  -> "query"
      [] loc = "header" -> "headers"
      [] loc = "body"   -> "body"

\* The text stored for the descriptor folded last.
StoredLast == Get(Get(acc, parameters[i].in), parameters[i].name)

\* All (bucket, key) pairs of an object of objects.
Entries(a) == UNION {{<<a[n].key, k>> : k \in KeySet(a[n].val)} : n \in 1..Len(a)}

-----------------------------------------------------------------------------
(* C1 *)

\* C1: whatever the parameter list, the returned ParamsObject has the four
\* buckets params, query, headers and body, empty when unused.
C1_AllFourBuckets ==
    pc = "done" =>
        \A b \in {"params", "query", "headers", "body"} : Has(acc, b)

-----------------------------------------------------------------------------
(* C2 *)

\* C2: for a list of descriptors with known locations, every name is stored
\* in the bucket of its location (path -> params, query -> query,
\* header -> headers, body -> body) and the (bucket, key) pairs of the result
\* are exactly the (name, in) pairs of the input.
C2_NamesInMatchingBucket ==
    (pc = "done" /\ \A d \in Range(parameters) : d.in \in Locations) =>
        Entries(acc) = {<<BucketOf(d.in), d.name>> : d \in Range(parameters)}

-----------------------------------------------------------------------------
(* C3 *)

\* C3: the text stored for a descriptor, without its optionality suffix, is
\* generateZodCoerce('z.string()', base) when the location is query and the
\* schema type is number or integer, and the base expression otherwise.
C3_CoercionLaw ==
    (pc \in {"running", "done"} /\ i > 0) =>
        LET d == parameters[i]
            base == generateZodSchema(d.schema)
            expression == IF d.required THEN StoredLast ELSE Front(StoredLast)
        IN  IF d.in = "query" /\ (d.schema.type = "number" \/ d.schema.type = "integer")
            THEN expression = generateZodCoerce(<<"z.string()">>, base)
            ELSE expression = base

C3_Witness ==
    /\ pc = "done"
    /\ Len(parameters) = 2
    /\ parameters[1].in = "query" /\ parameters[1].schema.type = "integer"
    /\ parameters[2].in = "path" /\ parameters[2].schema.type = "integer"
    /\ parameters[1].name = parameters[2].name
    /\ parameters[1].required /\ parameters[2].required
    /\ Get(Get(acc, "query"), parameters[1].name)
           = <<"z.string()", ".pipe(", "z.number()", ".int()", ")">>
    /\ Get(Get(acc, "path"), parameters[2].name) = <<"z.number()", ".int()">>

-----------------------------------------------------------------------------
(* C4 *)

\* C4: the stored text is the (possibly coerced) expression, followed by
\* exactly one '.optional()' when required is false and by nothing when it
\* is true; the suffix is outermost, after the coercion wrapper.
C4_OptionalSuffix ==
    (pc \in {"running", "done"} /\ i > 0) =>
        LET d == parameters[i]
            base == generateZodSchema(d.schema)
            expressions == {base, generateZodCoerce(<<"z.string()">>, base)}
        IN  IF d.required
            THEN StoredLast \in expressions
            ELSE /\ Last(StoredLast) = ".optional()"
                 /\ Front(StoredLast) \in expressions

C4_Witness ==
    /\ pc = "done"
    /\ Len(parameters) = 1
    /\ parameters[1].in = "query"
    /\ parameters[1].schema.type = "number"
    /\ ~parameters[1].required
    /\ StoredLast = <<"z.string()", ".pipe(", "z.number()", ")", ".optional()">>

-----------------------------------------------------------------------------
(* C5 *)

\* C5: a descriptor whose location is not path, query, header or body makes
\* generateParamsObject fail: it does not return, and no bucket beyond the
\* four locations is ever created.
C5_UnknownLocationFails ==
    /\ KeySet(acc) \subseteq Locations \cup {"params", "headers"}
    /\ (\E d \in Range(parameters) : d.in \notin Locations) => pc # "done"

-----------------------------------------------------------------------------
(* C6 *)

\* C6: when several descriptors share (name, in), the call returns and the
\* text under that name is the one of the last such descriptor; the name is
\* a key of its bucket once.
C6_LastWriteWins ==
    pc = "done" =>
        /\ \A n \in 1..Len(parameters) :
              (\A m \in (n + 1)..Len(parameters) :
                    <<parameters[m].name, parameters[m].in>>
                        # <<parameters[n].name, parameters[n].in>>)
              => Get(Get(acc, parameters[n].in), parameters[n].name)
                     = ExpectedText(parameters[n])
        /\ \A n \in 1..Len(acc) : Cardinality(KeySet(acc[n].val)) = Len(acc[n].val)

C6_Witness ==
    /\ pc = "done"
    /\ Len(parameters) = 2
    /\ parameters[1].name = parameters[2].name
    /\ parameters[1].in = "query" /\ parameters[2].in = "query"
    /\ parameters[1].schema.type = "string" /\ parameters[1].required
    /\ parameters[2].schema.type = "integer" /\ ~parameters[2].required
    /\ Len(acc) = 1 /\ Len(acc[1].val) = 1
    /\ acc[1].val[1].val
           = <<"z.string()", ".pipe(", "z.number()", ".int()", ")", ".optional()">>

-----------------------------------------------------------------------------
(* C7 *)

HttpMethods ==
    {<<"g", "e", "t">>, <<"p", "o", "s", "t">>, <<"p", "u", "t">>,
     <<"d", "e", "l", "e", "t", "e">>, <<"p", "a", "t", "c", "h">>,
     <<"o", "p", "t", "i", "o", "n", "s">>, <<"h", "e", "a", "d">>}

\* C7: isHttpMethod returns true exactly for the seven lowercase tokens get,
\* post, put, delete, patch, options, head, false for any other string, and
\* it never throws.
C7_ExactMembership ==
    /\ mpc # "threw"
    /\ mpc = "returned" => (isMethod <=> method \in HttpMethods)

C7_Witness ==
    /\ mpc = "returned"
    /\ method = <<" ", "H", "E", "A", "D">>
    /\ isMethod = FALSE

-----------------------------------------------------------------------------
(* C8 *)

\* The value last assigned to key k.
LastAssigned(k) ==
    LET n == CHOOSE n \in 1..Len(inserted) :
                 /\ inserted[n].key = k
                 /\ \A m \in (n + 1)..Len(inserted) : inserted[m].key # k
    IN  inserted[n].val

\* 'key:value' for each key of ks, a ',' between two of them.
RECURSIVE Fields(_)
Fields(ks) ==
    IF ks = << >> THEN << >>
    ELSE (IF Len(ks) = 1 THEN << >> ELSE Fields(Front(ks)) \o <<",">>)
             \o <<Last(ks), ":">> \o LastAssigned(Last(ks))

InsertedKeys == [n \in 1..Len(inserted) |-> inserted[n].key]

\* C8 as stated: the result is 'z.object({' + the 'key:value' entries joined
\* by ',' in the insertion order of the mapping + '})', each key once.
C8_InsertionOrder ==
    opc = "returned" =>
        schema = <<"z.object({">> \o Fields(FirstOccurrences(InsertedKeys)) \o <<"})">>

\* C8 as amended: the result is 'z.object({' + the 'key:value' entries joined
\* by ',' + '})', each key of the mapping once, in the order Object.entries
\* enumerates them: integer-like keys in ascending numeric order first, then
\* the other keys in insertion order; no separator follows the last entry,
\* nothing is added to a value, and the empty mapping gives 'z.object({})'.
C8_OwnKeyOrder ==
    opc = "returned" =>
        /\ schema = <<"z.object({">> \o Fields(OwnKeyOrder(InsertedKeys)) \o <<"})">>
        /\ inserted = << >> => schema = <<"z.object({", "})">>
        /\ schema[Len(schema) - 1] # ","

C8_Witness ==
    /\ opc = "returned"
    /\ Len(inserted) = 3
    /\ InsertedKeys = <<"name", "1", "0">>
    /\ schema = <<"z.object({", "0", ":", "z.string()", ",", "1", ":", "z.string()", ",",
                  "name", ":", "z.number()", ".min(0)", "})">>

-----------------------------------------------------------------------------
(* C9 *)

\* C9: a later call of generateParamsObject on the parameter list of the
\* first call returns the value the first call returned, whatever calls were
\* made in between.
C9_SameResultAgain ==
    (pc = "done" /\ calls >= 2 /\ parameters = firstParams) => acc = firstResult

C9_Witness ==
    /\ pc = "done"
    /\ calls = 3
    /\ parameters = firstParams
    /\ Len(parameters) = 1
    /\ acc = firstResult
    /\ Len(acc) = 1

-----------------------------------------------------------------------------
(* C10 *)

\* Folding one descriptor leaves every other entry of every bucket as it
\* was, removes nothing, adds at most the entry of that descriptor, and does
\* not touch the input.
ReduceFrame ==
    Reduce =>
        LET d == parameters[i + 1]
        IN  /\ parameters' = parameters
            /\ \A e \in Entries(acc) :
                  /\ e \in Entries(acc')
                  /\ e # <<d.in, d.name>> =>
                        Get(Get(acc', e[1]), e[2]) = Get(Get(acc, e[1]), e[2])
            /\ Entries(acc') = Entries(acc) \cup {<<d.in, d.name>>}
            /\ KeySet(acc) \subseteq KeySet(acc')

\* After any prefix the buckets are the locations seen so far.
BucketsSeen ==
    pc \in {"running", "done"} => KeySet(acc) = {d.in : d \in Range(Folded)}

====
